---- MODULE Spec2Model ----
(***************************************************************************)
(* Evidence combination (Dempster-Shafer) of the repository:               *)
(*   - DempsterShaferDiagnosis (BeliefFunctions/RealWorldExample.py), the  *)
(*     subset-form engine: mass functions keyed by frozensets;             *)
(*   - BeliefFunctionKB (BeliefFunctions/BeliefFunctionModel.py), the      *)
(*     shorthand engine: mass functions keyed by 'x=V', 'x=F', 'x=?'.      *)
(*                                                                         *)
(* Python floats are modelled as exact rationals.  A mass function carries *)
(* one denominator den for all its masses: the mass of focal set k is      *)
(* masses[k] / den.  The literals of a script are written in units of      *)
(* 1/Unit; a product of two masses has the denominator den1 * den2; the    *)
(* division by (1 - conflict) changes the denominator and leaves the       *)
(* numerators.  Every +, *, / and comparison is exact, so rounding in the  *)
(* last bits of a double is outside the model.                             *)
(***************************************************************************)
EXTENDS Integers, Sequences, FiniteSets, TLC

VARIABLES script, pc, source1, source2, source3, combined1, final_combined, call

vars == <<script, pc, source1, source2, source3, combined1, final_combined, call>>

(***************************************************************************)
(* Bounds of the model.                                                    *)
(***************************************************************************)
\* number of hypotheses in the frame of discernment (self.diseases has 4)
NumHyp == 2
\* largest number of focal sets of a source handed to create_mass_function
MaxFocal == 2

(***************************************************************************)
(* Numbers.                                                                *)
(***************************************************************************)
Abs(x) == IF x < 0 THEN -x ELSE x

\* tolerance of create_mass_function: abs(total - 1.0) > 0.001
TolDen == 1000

\* the literals are multiples of 1/Unit = 0.0008, finer than the tolerance
Unit == (5 * TolDen) \div 4

(***************************************************************************)
(* Frame of discernment, focal sets and mass functions.                    *)
(***************************************************************************)
\* self.diseases / self.frame, the hypotheses numbered 1..NumHyp
Frame == 1 .. NumHyp

\* an identifier that is no hypothesis of the frame
Outsider == NumHyp + 1

\* weights the sources of a diagnosis are written with: 0.4, 0.6, 1.0, and
\* 0.9992 / 1.0008, which differ from 1 by less than the tolerance
SourceWeights == {(2 * Unit) \div 5, (3 * Unit) \div 5, Unit, Unit - 1, Unit + 1}

\* weights of arbitrary mappings: also 0, 0.5, -0.5 and 1.5
AnyWeights == SourceWeights \cup {0, Unit \div 2, -(Unit \div 2), (3 * Unit) \div 2}

\* focal sets of a well-formed source: the non-empty subsets of the frame
SourceKeys == (SUBSET Frame) \ {{}}

\* keys of arbitrary mappings: also the empty set and a set outside the frame
AnyKeys == (SUBSET Frame) \cup {{Outsider}}

\* the dicts {key: weight} with at most MaxFocal entries
Mappings(keys, weights) ==
    UNION {[S -> weights] : S \in {T \in SUBSET keys : Cardinality(T) <= MaxFocal}}

RawSources == Mappings(SourceKeys, SourceWeights)
RawAny == Mappings(AnyKeys, AnyWeights)

NoMF == [name |-> "None"]
NoCall == [fn |-> "none"]

\* list(d.keys()): the keys of a dict in its iteration order
RECURSIVE KeyList(_)
KeyList(S) ==
    IF S = {} THEN <<>>
    ELSE LET k == CHOOSE x \in S : TRUE IN <<k>> \o KeyList(S \ {k})

\* sum(masses.values())
RECURSIVE SumSeq(_, _, _)
SumSeq(masses, keys, i) ==
    IF i > Len(keys) THEN 0
    ELSE masses[keys[i]] + SumSeq(masses, keys, i + 1)

SumValues(masses) == SumSeq(masses, KeyList(DOMAIN masses), 1)

(***************************************************************************)
(* DempsterShaferDiagnosis.create_mass_function                            *)
(***************************************************************************)
\* a variant that forgets the abs(): total - 1.0 > 0.001
OutOfTolerance_noabs(n, den) == n - den > den \div TolDen

\* abs(total - 1.0) > 0.001, for total = n / den
OutOfTolerance(n, den) == Abs(n - den) > den \div TolDen

\* masses: the dict, its weights in units of 1/den
create_mass_function(name, masses, den) ==
    LET total == SumValues(masses) IN
    IF OutOfTolerance(total, den)
    THEN [outcome |-> "raise", error |-> "ValueError", total |-> [n |-> total, d |-> den]]
    ELSE [outcome |-> "return", value |-> [name |-> name, masses |-> masses, den |-> den]]

\* the dicts the sources of a diagnosis are built from: those of RawSources
\* that create_mass_function accepts (a rejected one ends the script at
\* once; SpecCreate covers them)
Sources ==
    {masses \in RawSources : create_mass_function("S", masses, Unit).outcome = "return"}

(***************************************************************************)
(* DempsterShaferDiagnosis.dempster_combination                            *)
(***************************************************************************)
\* a variant that assigns instead of accumulating: combined[intersection] = product
PairStep_overwrite(acc, hyp1, mass1, hyp2, mass2) ==
    LET intersection == hyp1 \cap hyp2
        product == mass1 * mass2
    IN  IF Cardinality(intersection) = 0
        THEN [acc EXCEPT !.conflict = @ + product]
        ELSE IF intersection \in DOMAIN acc.combined
             THEN [acc EXCEPT !.combined[intersection] = product]
             ELSE [acc EXCEPT !.combined = @ @@ (intersection :> product)]

\* a variant that drops the conflicting products instead of adding them to conflict
PairStep_noconflict(acc, hyp1, mass1, hyp2, mass2) ==
    LET intersection == hyp1 \cap hyp2
        product == mass1 * mass2
    IN  IF Cardinality(intersection) = 0
        THEN acc
        ELSE IF intersection \in DOMAIN acc.combined
             THEN [acc EXCEPT !.combined[intersection] = @ + product]
             ELSE [acc EXCEPT !.combined = @ @@ (intersection :> product)]

\* a variant that keeps the first product of a focal set and ignores the later ones
PairStep_keepfirst(acc, hyp1, mass1, hyp2, mass2) ==
    LET intersection == hyp1 \cap hyp2
        product == mass1 * mass2
    IN  IF Cardinality(intersection) = 0
        THEN [acc EXCEPT !.conflict = @ + product]
        ELSE IF intersection \in DOMAIN acc.combined
             THEN acc
             ELSE [acc EXCEPT !.combined = @ @@ (intersection :> product)]

\* a variant without the test of the empty intersection: the product of a
\* disjoint pair is accumulated on the empty focal set
PairStep_emptyfocal(acc, hyp1, mass1, hyp2, mass2) ==
    LET intersection == hyp1 \cap hyp2
        product == mass1 * mass2
    IN  IF intersection \in DOMAIN acc.combined
        THEN [acc EXCEPT !.combined[intersection] = @ + product]
        ELSE [acc EXCEPT !.combined = @ @@ (intersection :> product)]

\* body of the inner loop for one pair (hyp1, hyp2), lines 79-96; product,
\* conflict and combined are in units of 1/(mf1.den * mf2.den)
PairStep(acc, hyp1, mass1, hyp2, mass2) ==
    LET intersection == hyp1 \cap hyp2
        product == mass1 * mass2
    IN  IF Cardinality(intersection) = 0
        THEN [acc EXCEPT !.conflict = @ + product]
        ELSE IF intersection \in DOMAIN acc.combined
             THEN [acc EXCEPT !.combined[intersection] = @ + product]
             ELSE [acc EXCEPT !.combined = @ @@ (intersection :> product)]

\* for j, hyp2 in enumerate(hyp2_list)
RECURSIVE InnerLoop(_, _, _, _, _, _)
InnerLoop(acc, hyp1, mass1, mf2, hyp2_list, j) ==
    IF j > Len(hyp2_list) THEN acc
    ELSE InnerLoop(PairStep(acc, hyp1, mass1, hyp2_list[j], mf2.masses[hyp2_list[j]]),
                   hyp1, mass1, mf2, hyp2_list, j + 1)

\* for i, hyp1 in enumerate(hyp1_list)
RECURSIVE OuterLoop(_, _, _, _, _, _)
OuterLoop(acc, mf1, mf2, hyp1_list, hyp2_list, i) ==
    IF i > Len(hyp1_list) THEN acc
    ELSE OuterLoop(InnerLoop(acc, hyp1_list[i], mf1.masses[hyp1_list[i]], mf2, hyp2_list, 1),
                   mf1, mf2, hyp1_list, hyp2_list, i + 1)

\* combined and conflict when the loops end (line 98), before any division
Accumulate(mf1, mf2) ==
    OuterLoop([combined |-> <<>>, conflict |-> 0, den |-> mf1.den * mf2.den], mf1, mf2,
              KeyList(DOMAIN mf1.masses), KeyList(DOMAIN mf2.masses), 1)

\* _print_combination_matrix and _export_matrix_to_png: the summary line
\* formats 1/(1-conflict), which divides by zero when conflict is 1
PrintRaises(acc) == acc.den - acc.conflict = 0

\* if conflict < 1.0
ConflictBelowOne(acc) == acc.conflict < acc.den

\* for hyp in combined: combined[hyp] /= (1 - conflict)
\* (n / den) / ((den - conflict) / den) = n / (den - conflict)
Normalize(acc) == [masses |-> acc.combined, den |-> acc.den - acc.conflict]

\* a variant that composes the label with the second name first
dempster_combination_swapped(mf1, mf2, show_matrix) ==
    LET acc == Accumulate(mf1, mf2) IN
    IF show_matrix /\ PrintRaises(acc)
    THEN [outcome |-> "raise", error |-> "ZeroDivisionError", acc |-> acc,
          printed |-> TRUE, exported |-> FALSE]
    ELSE IF ConflictBelowOne(acc)
    THEN [outcome |-> "return",
          value |-> [name |-> mf2.name \o " (+) " \o mf1.name,
                     masses |-> Normalize(acc).masses,
                     den |-> Normalize(acc).den,
                     conflict |-> [n |-> acc.conflict, d |-> acc.den]],
          acc |-> acc, printed |-> show_matrix, exported |-> show_matrix]
    ELSE [outcome |-> "raise", error |-> "ValueError", acc |-> acc,
          printed |-> show_matrix, exported |-> show_matrix]

\* " (+) " is written for the circled plus sign of the source's label
dempster_combination(mf1, mf2, show_matrix) ==
    LET acc == Accumulate(mf1, mf2) IN
    IF show_matrix /\ PrintRaises(acc)
    THEN [outcome |-> "raise", error |-> "ZeroDivisionError", acc |-> acc,
          printed |-> TRUE, exported |-> FALSE]
    ELSE IF ConflictBelowOne(acc)
    THEN [outcome |-> "return",
          value |-> [name |-> mf1.name \o " (+) " \o mf2.name,
                     masses |-> Normalize(acc).masses,
                     den |-> Normalize(acc).den,
                     conflict |-> [n |-> acc.conflict, d |-> acc.den]],
          acc |-> acc, printed |-> show_matrix, exported |-> show_matrix]
    ELSE [outcome |-> "raise", error |-> "ValueError", acc |-> acc,
          printed |-> show_matrix, exported |-> show_matrix]

(***************************************************************************)
(* DempsterShaferDiagnosis.calculate_belief / calculate_plausibility       *)
(***************************************************************************)
\* the one element of frozenset([hypothesis]) when hypothesis is itself a
\* frozenset: an object that is no hypothesis identifier
Opaque == 0

\* the ways a caller passes a hypothesis: a list, a set or a frozenset of
\* identifiers, or one identifier h (a str, written here with value {h})
Hypotheses ==
    {[kind |-> k, value |-> H] : k \in {"list", "set", "frozenset"}, H \in SUBSET Frame}
    \cup {[kind |-> "str", value |-> {h}] : h \in Frame \cup {Outsider}}

\* the object a hypothesis is when it is no list and no set: the identifier
\* itself for a str, an opaque object for a frozenset
Object(hypothesis) ==
    IF hypothesis.kind = "str" THEN CHOOSE h \in hypothesis.value : TRUE ELSE Opaque

\* a variant that tests isinstance(hypothesis, set) only: a list is wrapped
HypSet_nolist(hypothesis) ==
    IF hypothesis.kind \in {"set"} THEN hypothesis.value
    ELSE {Object(hypothesis)}

\* hyp_set = frozenset(hypothesis) if isinstance(hypothesis, (list, set))
\*           else frozenset([hypothesis])
HypSet(hypothesis) ==
    IF hypothesis.kind \in {"list", "set"} THEN hypothesis.value
    ELSE {Object(hypothesis)}

RECURSIVE BeliefLoop(_, _, _, _)
BeliefLoop(masses, keys, hyp_set, i) ==
    IF i > Len(keys) THEN 0
    ELSE LET rest == BeliefLoop(masses, keys, hyp_set, i + 1) IN
         IF keys[i] \subseteq hyp_set THEN masses[keys[i]] + rest ELSE rest

calculate_belief(mass_function, hypothesis) ==
    [n |-> BeliefLoop(mass_function.masses, KeyList(DOMAIN mass_function.masses),
                      HypSet(hypothesis), 1),
     d |-> mass_function.den]

RECURSIVE PlausibilityLoop(_, _, _, _)
PlausibilityLoop(masses, keys, hyp_set, i) ==
    IF i > Len(keys) THEN 0
    ELSE LET rest == PlausibilityLoop(masses, keys, hyp_set, i + 1) IN
         IF Cardinality(keys[i] \cap hyp_set) > 0 THEN masses[keys[i]] + rest ELSE rest

calculate_plausibility(mass_function, hypothesis) ==
    [n |-> PlausibilityLoop(mass_function.masses, KeyList(DOMAIN mass_function.masses),
                            HypSet(hypothesis), 1),
     d |-> mass_function.den]

(***************************************************************************)
(* BeliefFunctionKB.dempster_combination (shorthand keys)                  *)
(***************************************************************************)
\* the shorthand keys of one variable d: 'd=V', 'd=F', 'd=?'
KBKeys == {"d=V", "d=F", "d=?"}

\* '?' in key
HasQ(key) == key = "d=?"

\* weights of the shorthand sources: 0.14, 0.86, 0.6, 0.4, 0.26 and 1.0
KBWeights ==
    {(7 * Unit) \div 50, (43 * Unit) \div 50, (3 * Unit) \div 5, (2 * Unit) \div 5,
     (13 * Unit) \div 50, Unit}

\* the shorthand mass functions: dicts over KBKeys whose weights sum to 1
KBMasses ==
    {[masses |-> m, den |-> Unit] : m \in {x \in Mappings(KBKeys, KBWeights) : SumValues(x) = Unit}}

\* a variant that keeps key1 whenever one of the two keys is the ignorance key
KBPairStep_left(acc, key1, val1, key2, val2) ==
    IF key1 = key2 \/ HasQ(key1) \/ HasQ(key2)
    THEN LET intersection == key1
         IN  IF intersection \in DOMAIN acc.combined
             THEN [acc EXCEPT !.combined[intersection] = @ + val1 * val2]
             ELSE [acc EXCEPT !.combined = @ @@ (intersection :> val1 * val2)]
    ELSE [acc EXCEPT !.conflict = @ + val1 * val2]

KBPairStep(acc, key1, val1, key2, val2) ==
    IF key1 = key2 \/ HasQ(key1) \/ HasQ(key2)
    THEN LET intersection == IF key1 = key2 THEN key1
                             ELSE IF HasQ(key1) THEN key2 ELSE key1
         IN  IF intersection \in DOMAIN acc.combined
             THEN [acc EXCEPT !.combined[intersection] = @ + val1 * val2]
             ELSE [acc EXCEPT !.combined = @ @@ (intersection :> val1 * val2)]
    ELSE [acc EXCEPT !.conflict = @ + val1 * val2]

RECURSIVE KBInnerLoop(_, _, _, _, _, _)
KBInnerLoop(acc, key1, val1, mass2, keys2, j) ==
    IF j > Len(keys2) THEN acc
    ELSE KBInnerLoop(KBPairStep(acc, key1, val1, keys2[j], mass2.masses[keys2[j]]),
                     key1, val1, mass2, keys2, j + 1)

RECURSIVE KBOuterLoop(_, _, _, _, _, _)
KBOuterLoop(acc, mass1, mass2, keys1, keys2, i) ==
    IF i > Len(keys1) THEN acc
    ELSE KBOuterLoop(KBInnerLoop(acc, keys1[i], mass1.masses[keys1[i]], mass2, keys2, 1),
                     mass1, mass2, keys1, keys2, i + 1)

KBAccumulate(mass1, mass2) ==
    KBOuterLoop([combined |-> <<>>, conflict |-> 0, den |-> mass1.den * mass2.den],
                mass1, mass2, KeyList(DOMAIN mass1.masses), KeyList(DOMAIN mass2.masses), 1)

\* returns the tuple (combined, conflict); nothing is raised, and combined
\* is divided by (1 - conflict) only if conflict < 1
kb_dempster_combination(mass1, mass2) ==
    LET acc == KBAccumulate(mass1, mass2) IN
    [outcome |-> "return",
     value |-> [masses |-> acc.combined,
                den |-> IF ConflictBelowOne(acc) THEN Normalize(acc).den ELSE acc.den,
                conflict |-> [n |-> acc.conflict, d |-> acc.den]],
     acc |-> acc, printed |-> FALSE, exported |-> FALSE]

(***************************************************************************)
(* The scripts.  RealWorldExample.py builds two sources, combines them and *)
(* queries belief and plausibility; BeliefFunctionModel.py combines two    *)
(* shorthand mass functions.  An uncaught exception ends the script, and  *)
(* so does the report of a belief or plausibility.                         *)
(***************************************************************************)
Init ==
    /\ script \in {"RealWorldExample", "BeliefFunctionModel"}
    /\ pc = "start"
    /\ source1 = NoMF
    /\ source2 = NoMF
    /\ source3 = NoMF
    /\ combined1 = NoMF
    /\ final_combined = NoMF
    /\ call = NoCall

\* source1 = ds.create_mass_function(...)
CreateSource1 ==
    /\ script = "RealWorldExample" /\ pc = "start"
    /\ \E masses \in Sources :
         LET r == create_mass_function("S1", masses, Unit) IN
         /\ call' = [fn |-> "create_mass_function", masses |-> masses] @@ r
         /\ source1' = IF r.outcome = "return" THEN r.value ELSE source1
         /\ pc' = IF r.outcome = "return" THEN "source1" ELSE "crashed"
    /\ UNCHANGED <<script, source2, source3, combined1, final_combined>>

\* source2 = ds.create_mass_function(...)
CreateSource2 ==
    /\ script = "RealWorldExample" /\ pc = "source1"
    /\ \E masses \in Sources :
         LET r == create_mass_function("S2", masses, Unit) IN
         /\ call' = [fn |-> "create_mass_function", masses |-> masses] @@ r
         /\ source2' = IF r.outcome = "return" THEN r.value ELSE source2
         /\ pc' = IF r.outcome = "return" THEN "source2" ELSE "crashed"
    /\ UNCHANGED <<script, source1, source3, combined1, final_combined>>

\* combined1 = ds.dempster_combination(source1, source2[, show_matrix])
Combine ==
    /\ script = "RealWorldExample" /\ pc = "source2"
    /\ \E show_matrix \in BOOLEAN :
         LET r == dempster_combination(source1, source2, show_matrix) IN
         /\ call' = [fn |-> "dempster_combination", mf1 |-> source1, mf2 |-> source2,
                     show_matrix |-> show_matrix] @@ r
         /\ combined1' = IF r.outcome = "return" THEN r.value ELSE combined1
         /\ pc' = IF r.outcome = "return" THEN "combined" ELSE "crashed"
    /\ UNCHANGED <<script, source1, source2, source3, final_combined>>

\* the mass function a query is made on: the last one built
Current == IF pc = "combined" THEN combined1 ELSE source1

\* bel = ds.calculate_belief(mass_function, hypothesis)
QueryBelief ==
    /\ script = "RealWorldExample" /\ pc \in {"source1", "combined"}
    /\ \E hypothesis \in Hypotheses :
         call' = [fn |-> "calculate_belief", mass_function |-> Current,
                  hypothesis |-> hypothesis, outcome |-> "return",
                  value |-> calculate_belief(Current, hypothesis)]
    /\ pc' = "done"
    /\ UNCHANGED <<script, source1, source2, source3, combined1, final_combined>>

\* pl = ds.calculate_plausibility(mass_function, hypothesis)
QueryPlausibility ==
    /\ script = "RealWorldExample" /\ pc \in {"source1", "combined"}
    /\ \E hypothesis \in Hypotheses :
         call' = [fn |-> "calculate_plausibility", mass_function |-> Current,
                  hypothesis |-> hypothesis, outcome |-> "return",
                  value |-> calculate_plausibility(Current, hypothesis)]
    /\ pc' = "done"
    /\ UNCHANGED <<script, source1, source2, source3, combined1, final_combined>>

\* mass1 = {...}; mass2 = {...}: the two shorthand sources (held in source1, source2)
KBSources ==
    /\ script = "BeliefFunctionModel" /\ pc = "start"
    /\ \E mass1 \in KBMasses, mass2 \in KBMasses :
         /\ source1' = mass1
         /\ source2' = mass2
    /\ pc' = "source2"
    /\ UNCHANGED <<script, source3, combined1, final_combined, call>>

\* combined, conflict = self.dempster_combination(mass1, mass2)
KBCombine ==
    /\ script = "BeliefFunctionModel" /\ pc = "source2"
    /\ LET r == kb_dempster_combination(source1, source2) IN
         /\ call' = [fn |-> "kb_dempster_combination", mf1 |-> source1, mf2 |-> source2,
                     show_matrix |-> FALSE] @@ r
         /\ combined1' = r.value
    /\ pc' = "combined"
    /\ UNCHANGED <<script, source1, source2, source3, final_combined>>

Next ==
    \/ CreateSource1
    \/ CreateSource2
    \/ Combine
    \/ QueryBelief
    \/ QueryPlausibility
    \/ KBSources
    \/ KBCombine

Spec == Init /\ [][Next]_vars

(***************************************************************************)
(* create_mass_function on arbitrary mappings: keys that are empty or      *)
(* outside the frame, weights that are zero or negative.                   *)
(***************************************************************************)
InitCreate ==
    /\ script = "RealWorldExample"
    /\ pc = "start"
    /\ source1 = NoMF
    /\ source2 = NoMF
    /\ source3 = NoMF
    /\ combined1 = NoMF
    /\ final_combined = NoMF
    /\ call = NoCall

\* source1 = ds.create_mass_function(name, masses) for any dict masses
CreateAny ==
    /\ pc = "start"
    /\ \E masses \in RawAny :
         LET r == create_mass_function("S1", masses, Unit) IN
         /\ call' = [fn |-> "create_mass_function", masses |-> masses] @@ r
         /\ source1' = IF r.outcome = "return" THEN r.value ELSE source1
         /\ pc' = IF r.outcome = "return" THEN "source1" ELSE "crashed"
    /\ UNCHANGED <<script, source2, source3, combined1, final_combined>>

NextCreate == CreateAny

SpecCreate == InitCreate /\ [][NextCreate]_vars

(***************************************************************************)
(* The chain of main(): final_combined = (source1 (+) source2) (+) source3 *)
(***************************************************************************)
\* source3 = ds.create_mass_function(...)
CreateSource3 ==
    /\ script = "RealWorldExample" /\ pc = "combined"
    /\ \E masses \in Sources :
         LET r == create_mass_function("S3", masses, Unit) IN
         /\ call' = [fn |-> "create_mass_function", masses |-> masses] @@ r
         /\ source3' = IF r.outcome = "return" THEN r.value ELSE source3
         /\ pc' = IF r.outcome = "return" THEN "source3" ELSE "crashed"
    /\ UNCHANGED <<script, source1, source2, combined1, final_combined>>

\* final_combined = ds.dempster_combination(combined1, source3)
CombineFinal ==
    /\ script = "RealWorldExample" /\ pc = "source3"
    /\ \E show_matrix \in BOOLEAN :
         LET r == dempster_combination(combined1, source3, show_matrix) IN
         /\ call' = [fn |-> "dempster_combination", mf1 |-> combined1, mf2 |-> source3,
                     show_matrix |-> show_matrix] @@ r
         /\ final_combined' = IF r.outcome = "return" THEN r.value ELSE final_combined
         /\ pc' = IF r.outcome = "return" THEN "final" ELSE "crashed"
    /\ UNCHANGED <<script, source1, source2, source3, combined1>>

NextChain ==
    \/ CreateSource1
    \/ CreateSource2
    \/ Combine
    \/ CreateSource3
    \/ CombineFinal

SpecChain == InitCreate /\ [][NextChain]_vars

(***************************************************************************)
(* BeliefFunctionKB.create_mass_from_strata and                            *)
(* BeliefFunctionKB.calculate_belief_plausibility                          *)
(***************************************************************************)
\* interest values handed to create_mass_from_strata: the multiples of 0.02
\* from -0.1 to 1.1
InterestValues == {k * (Unit \div 50) : k \in -5 .. 55}

create_mass_from_strata(var_name, interest_value) ==
    IF interest_value > 0
    THEN LET belief == interest_value
             uncertainty == Unit - belief
         IN  [masses |-> (var_name \o "=V" :> belief) @@ (var_name \o "=?" :> uncertainty),
              den |-> Unit]
    ELSE [masses |-> (var_name \o "=?" :> Unit), den |-> Unit]

\* the hypotheses asked of the shorthand calculator: the three keys of the
\* variable d, and a key of another variable
KBHypotheses == KBKeys \cup {"e=V"}

\* the characters of a shorthand string
Chars(s) ==
    CASE s = "d=V" -> <<"d", "=", "V">>
      [] s = "d=F" -> <<"d", "=", "F">>
      [] s = "d=?" -> <<"d", "=", "?">>
      [] s = "e=V" -> <<"e", "=", "V">>

\* hypothesis in focal_set, on str: hypothesis is a substring of focal_set
Contains(hypothesis, focal_set) ==
    LET sub == Chars(hypothesis)
        str == Chars(focal_set)
    IN  \E i \in 0 .. (Len(str) - Len(sub)) : SubSeq(str, i + 1, i + Len(sub)) = sub

\* a variant whose plausibility leaves the ignorance key out
KBQueryStep_plnoq(acc, focal_set, mass, hypothesis) ==
    [belief |-> IF Contains(hypothesis, focal_set) /\ ~HasQ(focal_set)
                THEN acc.belief + mass ELSE acc.belief,
     plausibility |-> IF Contains(hypothesis, focal_set)
                      THEN acc.plausibility + mass ELSE acc.plausibility]

\* the body of the loop of calculate_belief_plausibility
KBQueryStep(acc, focal_set, mass, hypothesis) ==
    [belief |-> IF Contains(hypothesis, focal_set) /\ ~HasQ(focal_set)
                THEN acc.belief + mass ELSE acc.belief,
     plausibility |-> IF Contains(hypothesis, focal_set) \/ HasQ(focal_set)
                      THEN acc.plausibility + mass ELSE acc.plausibility]

RECURSIVE KBQueryLoop(_, _, _, _, _)
KBQueryLoop(acc, mass_func, keys, hypothesis, i) ==
    IF i > Len(keys) THEN acc
    ELSE KBQueryLoop(KBQueryStep(acc, keys[i], mass_func.masses[keys[i]], hypothesis),
                     mass_func, keys, hypothesis, i + 1)

\* returns the tuple (belief, plausibility)
calculate_belief_plausibility(mass_func, hypothesis) ==
    LET acc == KBQueryLoop([belief |-> 0, plausibility |-> 0], mass_func,
                           KeyList(DOMAIN mass_func.masses), hypothesis, 1)
    IN  [belief |-> [n |-> acc.belief, d |-> mass_func.den],
         plausibility |-> [n |-> acc.plausibility, d |-> mass_func.den]]

(***************************************************************************)
(* The reports: belief and plausibility of one hypothesis asked together,  *)
(* on any mass function create_mass_function lets through or               *)
(* dempster_combination returns.                                           *)
(***************************************************************************)
\* bel = self.calculate_belief(mass_function, hypothesis)
\* pl = self.calculate_plausibility(mass_function, hypothesis)
QueryInterval ==
    /\ script = "RealWorldExample" /\ pc \in {"source1", "combined"}
    /\ \E hypothesis \in Hypotheses :
         call' = [fn |-> "print_belief_plausibility", mass_function |-> Current,
                  hypothesis |-> hypothesis, outcome |-> "return",
                  bel |-> calculate_belief(Current, hypothesis),
                  pl |-> calculate_plausibility(Current, hypothesis)]
    /\ pc' = "done"
    /\ UNCHANGED <<script, source1, source2, source3, combined1, final_combined>>

\* mass_dict2 = self.create_mass_from_strata(var, interest_val)
KBFromStrata ==
    /\ script = "BeliefFunctionModel" /\ pc = "start"
    /\ \E interest_value \in InterestValues :
         LET r == create_mass_from_strata("d", interest_value) IN
         /\ call' = [fn |-> "create_mass_from_strata", var_name |-> "d",
                     interest_value |-> interest_value, outcome |-> "return", value |-> r]
         /\ source1' = r
    /\ pc' = "strata"
    /\ UNCHANGED <<script, source2, source3, combined1, final_combined>>

\* the mass function the shorthand calculator is asked about
KBCurrent == IF pc = "combined" THEN combined1 ELSE source1

\* bel, pl = self.calculate_belief_plausibility(mass_func, hypothesis)
KBQuery ==
    /\ script = "BeliefFunctionModel" /\ pc \in {"strata", "combined"}
    /\ \E hypothesis \in KBHypotheses :
         call' = [fn |-> "calculate_belief_plausibility", mass_function |-> KBCurrent,
                  hypothesis |-> hypothesis, outcome |-> "return",
                  value |-> calculate_belief_plausibility(KBCurrent, hypothesis)]
    /\ pc' = "done"
    /\ UNCHANGED <<script, source1, source2, source3, combined1, final_combined>>

NextQuery ==
    \/ CreateAny
    \/ CreateSource2
    \/ Combine
    \/ QueryInterval

SpecQuery == InitCreate /\ [][NextQuery]_vars

(***************************************************************************)
(* BeliefFunctionModel.py alone: generate_report builds a mass function    *)
(* from an interest value and asks its belief and plausibility;            *)
(* demonstrate_combination combines two sources and asks those of the      *)
(* result.                                                                 *)
(***************************************************************************)
InitKB ==
    /\ script = "BeliefFunctionModel"
    /\ pc = "start"
    /\ source1 = NoMF
    /\ source2 = NoMF
    /\ source3 = NoMF
    /\ combined1 = NoMF
    /\ final_combined = NoMF
    /\ call = NoCall

NextKB ==
    \/ KBSources
    \/ KBFromStrata
    \/ KBCombine
    \/ KBQuery

SpecKB == InitKB /\ [][NextKB]_vars

(***************************************************************************)
(* PossibilityTheory/ThLogicDicho.py: calculate_interest_variable.  The    *)
(* state of a call (phi_literal, l, u, result_idx, the last index r that  *)
(* was probed) is held in the record call.  Weights are in hundredths.     *)
(***************************************************************************)
\* the stratified knowledge base; strata[i + 1] here is strata[i] there
strata ==
    << [weight |-> 90, clauses |-> {{1, -2, 4, 5}, {-2, 3}}],
       [weight |-> 78, clauses |-> {{2, -3}}],
       [weight |-> 65, clauses |-> {{1, -2, 4, 5}, {-2, 3}, {-1, 2, 4}}],
       [weight |-> 60, clauses |-> {{1, -2, 4, 5}, {2, 3}}],
       [weight |-> 58, clauses |-> {{-1, -2, 4}}],
       [weight |-> 43, clauses |-> {{1, -2, 4, 5}, {-2, 3}, {1, 2, 4}}],
       [weight |-> 36, clauses |-> {{1, 5}, {-2, 3, 6}}],
       [weight |-> 26, clauses |-> {{-1, 4}}],
       [weight |-> 14, clauses |-> {{4}}] >>

\* the literals calculate_interest_variable is called with: the variables
\* a..f of the knowledge base, three variables it does not mention, and their
\* negations
Literals == {x \in -9 .. 9 : x # 0}

\* the clauses given to the solver: those of strata 0..r, and [-phi_literal]
Projection(r, phi_literal) ==
    UNION {strata[i + 1].clauses : i \in 0 .. r} \cup {{-phi_literal}}

\* solver.solve(): some assignment (the set of the variables that are true)
\* satisfies every clause
Solve(clauses) ==
    \E true \in SUBSET {Abs(x) : x \in Literals} :
        \A clause \in clauses :
            \E lit \in clause : IF lit > 0 THEN lit \in true ELSE (-lit) \notin true

\* a variant that moves the upper bound also when the projection is consistent
WhileBody_upper(c, sat) ==
    LET r == (c.l + c.u) \div 2 IN
    IF sat
    THEN [c EXCEPT !.r = r, !.u = r - 1]
    ELSE [c EXCEPT !.r = r, !.result_idx = r, !.u = r - 1]

\* a variant that keeps l at r when the projection is consistent
WhileBody_stuck(c, sat) ==
    LET r == (c.l + c.u) \div 2 IN
    IF sat
    THEN [c EXCEPT !.r = r, !.l = r]
    ELSE [c EXCEPT !.r = r, !.result_idx = r, !.u = r - 1]

\* one iteration of the while loop, sat being the answer of the solver
WhileBody(c, sat) ==
    LET r == (c.l + c.u) \div 2 IN
    IF sat
    THEN [c EXCEPT !.r = r, !.l = r + 1]
    ELSE [c EXCEPT !.r = r, !.result_idx = r, !.u = r - 1]

\* the value returned after the loop
ReturnValue(c) ==
    IF c.result_idx # -1 THEN strata[c.result_idx + 1].weight ELSE 0

InitDicho ==
    /\ script = "ThLogicDicho"
    /\ pc = "start"
    /\ source1 = NoMF
    /\ source2 = NoMF
    /\ source3 = NoMF
    /\ combined1 = NoMF
    /\ final_combined = NoMF
    /\ call = NoCall

\* interest_val = calculate_interest_variable(var): lines 22-25
DichoCall ==
    /\ script = "ThLogicDicho" /\ pc = "start"
    /\ \E phi_literal \in Literals :
         call' = [fn |-> "calculate_interest_variable", phi_literal |-> phi_literal,
                  n |-> Len(strata), l |-> 0, u |-> Len(strata) - 1,
                  result_idx |-> -1, r |-> -1, outcome |-> "running", value |-> 0]
    /\ pc' = "while"
    /\ UNCHANGED <<script, source1, source2, source3, combined1, final_combined>>

\* one iteration of the while loop with the answer of Glucose4
DichoIterate ==
    /\ script = "ThLogicDicho" /\ pc = "while"
    /\ call.l <= call.u
    /\ call' = WhileBody(call, Solve(Projection((call.l + call.u) \div 2, call.phi_literal)))
    /\ UNCHANGED <<script, pc, source1, source2, source3, combined1, final_combined>>

\* one iteration of the while loop with any answer of the solver
DichoIterateAny ==
    /\ script = "ThLogicDicho" /\ pc = "while"
    /\ call.l <= call.u
    /\ \E sat \in BOOLEAN : call' = WhileBody(call, sat)
    /\ UNCHANGED <<script, pc, source1, source2, source3, combined1, final_combined>>

\* the loop is left: lines 45-47
DichoReturn ==
    /\ script = "ThLogicDicho" /\ pc = "while"
    /\ ~(call.l <= call.u)
    /\ call' = [call EXCEPT !.outcome = "return", !.value = ReturnValue(call)]
    /\ pc' = "returned"
    /\ UNCHANGED <<script, source1, source2, source3, combined1, final_combined>>

NextDicho ==
    \/ DichoCall
    \/ DichoIterate
    \/ DichoReturn

SpecDicho == InitDicho /\ [][NextDicho]_vars

NextDichoAny ==
    \/ DichoCall
    \/ DichoIterateAny
    \/ DichoReturn

\* the interpreter runs the loop on: a step that can be taken is taken
SpecDichoAny == InitDicho /\ [][NextDichoAny]_vars /\ WF_vars(NextDichoAny)

(***************************************************************************)
(* Objects.  A mass function is a dict {"name", "masses"} that refers to   *)
(* the dict of its masses; heap is the sequence of the dicts that exist,   *)
(* an object's identity being its index.  A masses dict is held as its     *)
(* mapping, a mass function dict as [name, masses (an index), den].        *)
(***************************************************************************)
\* source1 and source2 as objects: the dict passed to create_mass_function
\* and the dict it returned, which refers to it (line 56)
SourceObjects ==
    << source1.masses, [name |-> source1.name, masses |-> 1, den |-> source1.den],
       source2.masses, [name |-> source2.name, masses |-> 3, den |-> source2.den] >>

\* the mass function with its masses, as the value the loops read
Deref(heap, mf) == [name |-> heap[mf].name, masses |-> heap[heap[mf].masses],
                    den |-> heap[mf].den]

\* a variant that accumulates into the first dict that exists
NewDict_first(heap) == [heap |-> heap, ref |-> 1]

\* combined = {}: a new, empty dict
NewDict(heap) == [heap |-> Append(heap, <<>>), ref |-> Len(heap) + 1]

\* the loops of lines 74-98 read mf1 and mf2 and assign only to the items of
\* combined and to the local conflict
LoopsOnHeap(heap, combined, mf1, mf2) ==
    LET m1 == Deref(heap, mf1)
        m2 == Deref(heap, mf2)
        acc == OuterLoop([combined |-> heap[combined], conflict |-> 0,
                          den |-> m1.den * m2.den], m1, m2,
                         KeyList(DOMAIN m1.masses), KeyList(DOMAIN m2.masses), 1)
    IN  [heap |-> [heap EXCEPT ![combined] = acc.combined], acc |-> acc]

\* dempster_combination on objects: mf1 and mf2 are the indices of two mass
\* function dicts; the result is the index of the dict built at lines 111-115
dempster_combination_on_heap(heap, mf1, mf2, show_matrix) ==
    LET new == NewDict(heap)
        run == LoopsOnHeap(new.heap, new.ref, mf1, mf2)
        acc == run.acc
    IN  IF show_matrix /\ PrintRaises(acc)
        THEN [outcome |-> "raise", error |-> "ZeroDivisionError", heap |-> run.heap]
        ELSE IF ConflictBelowOne(acc)
        THEN [outcome |-> "return",
              value |-> Len(run.heap) + 1,
              heap |-> Append(run.heap,
                              [name |-> heap[mf1].name \o " (+) " \o heap[mf2].name,
                               masses |-> new.ref,
                               den |-> Normalize(acc).den,
                               conflict |-> [n |-> acc.conflict, d |-> acc.den]])]
        ELSE [outcome |-> "raise", error |-> "ValueError", heap |-> run.heap]

\* ds.dempster_combination(a, b[, show_matrix]), a and b being source1 or
\* source2, also twice the same object
CombineObjects ==
    /\ script = "RealWorldExample" /\ pc = "source2"
    /\ \E mf1 \in {2, 4}, mf2 \in {2, 4}, show_matrix \in BOOLEAN :
         LET r == dempster_combination_on_heap(SourceObjects, mf1, mf2, show_matrix) IN
         /\ call' = [fn |-> "dempster_combination", mf1 |-> mf1, mf2 |-> mf2,
                     show_matrix |-> show_matrix, heap_before |-> SourceObjects,
                     heap_after |-> r.heap, outcome |-> r.outcome,
                     value |-> IF r.outcome = "return" THEN r.value ELSE 0]
         /\ combined1' = IF r.outcome = "return"
                         THEN [name |-> r.heap[r.value].name,
                               masses |-> r.heap[r.heap[r.value].masses],
                               den |-> r.heap[r.value].den,
                               conflict |-> r.heap[r.value].conflict]
                         ELSE combined1
         /\ pc' = IF r.outcome = "return" THEN "combined" ELSE "crashed"
    /\ UNCHANGED <<script, source1, source2, source3, final_combined>>

\* ds.calculate_belief(a, hypothesis) and ds.calculate_plausibility(a,
\* hypothesis): hyp_set, belief and plausibility are locals, and the mass
\* function is only read
QueryObjects ==
    /\ script = "RealWorldExample" /\ pc = "source2"
    /\ \E mass_function \in {2, 4}, hypothesis \in Hypotheses,
          fn \in {"calculate_belief", "calculate_plausibility"} :
         call' = [fn |-> fn, mf1 |-> mass_function, mf2 |-> mass_function,
                  hypothesis |-> hypothesis, heap_before |-> SourceObjects,
                  heap_after |-> SourceObjects, outcome |-> "return",
                  value |-> IF fn = "calculate_belief"
                            THEN calculate_belief(Deref(SourceObjects, mass_function), hypothesis)
                            ELSE calculate_plausibility(Deref(SourceObjects, mass_function),
                                                       hypothesis)]
    /\ pc' = "done"
    /\ UNCHANGED <<script, source1, source2, source3, combined1, final_combined>>

NextObjects ==
    \/ CreateSource1
    \/ CreateSource2
    \/ CombineObjects
    \/ QueryObjects

SpecObjects == InitCreate /\ [][NextObjects]_vars

(***************************************************************************)
(* Properties.  The sums below are written over sets, independently of     *)
(* the loops of the code.                                                  *)
(***************************************************************************)
RECURSIVE GCD(_, _)
GCD(a, b) == IF b = 0 THEN a ELSE GCD(b, a % b)

\* n1/d1 = n2/d2 (d1, d2 > 0), compared in lowest terms
SameNumber(n1, d1, n2, d2) ==
    LET g1 == GCD(Abs(n1), d1)
        g2 == GCD(Abs(n2), d2)
    IN  n1 \div g1 = n2 \div g2 /\ d1 \div g1 = d2 \div g2

\* the sum of the values of a function
RECURSIVE SumFun(_)
SumFun(f) ==
    IF DOMAIN f = {} THEN 0
    ELSE LET x == CHOOSE y \in DOMAIN f : TRUE
         IN  f[x] + SumFun([y \in DOMAIN f \ {x} |-> f[y]])

\* the focal pairs (A, B) of m1 and m2 with A /\ B = C
FocalPairs(m1, m2, C) ==
    {p \in (DOMAIN m1) \X (DOMAIN m2) : p[1] \cap p[2] = C}

\* the sum of m1(A) * m2(B) over the focal pairs with A /\ B = C
PairSum(m1, m2, C) ==
    SumFun([p \in FocalPairs(m1, m2, C) |-> m1[p[1]] * m2[p[2]]])

DSCall == call.fn = "dempster_combination"
KBCall == call.fn = "kb_dempster_combination"
Returned == call.outcome = "return"

\* two mass functions carry the same masses on the same focal sets
SameMasses(a, b) ==
    /\ DOMAIN a.masses = DOMAIN b.masses
    /\ \A k \in DOMAIN a.masses : SameNumber(a.masses[k], a.den, b.masses[k], b.den)

\* C1: when K < 1, dempster_combination returns, for every non-empty set C,
\* the mass (sum of m1(A)*m2(B) over the focal pairs with A /\ B = C) / (1 - K),
\* K being the same sum over the pairs with an empty intersection; a set that
\* is the intersection of no focal pair is no key of the result.
C1_CombinationFormula ==
    DSCall =>
        LET m1 == call.mf1.masses
            m2 == call.mf2.masses
            D == call.mf1.den * call.mf2.den
            K == PairSum(m1, m2, {})
        IN  K < D =>
              /\ Returned
              /\ DOMAIN call.value.masses \subseteq (SUBSET Frame) \ {{}}
              /\ \A C \in (SUBSET Frame) \ {{}} :
                    IF FocalPairs(m1, m2, C) # {}
                    THEN /\ C \in DOMAIN call.value.masses
                         /\ SameNumber(call.value.masses[C], call.value.den,
                                       PairSum(m1, m2, C), D - K)
                    ELSE C \notin DOMAIN call.value.masses

\* a combination with 0 < K < 1 in which one focal set collects two products
C1_Witness ==
    /\ DSCall /\ Returned
    /\ call.value.conflict.n > 0
    /\ \E C \in DOMAIN call.value.masses :
          Cardinality(FocalPairs(call.mf1.masses, call.mf2.masses, C)) >= 2

\* C2 as stated: conflict plus the accumulated masses, before the division,
\* equal 1 for every two inputs that create_mass_function accepted.
C2_PreNormalizationIsOne ==
    DSCall => call.acc.conflict + SumFun(call.acc.combined) = call.acc.den

\* C2 amended: conflict plus the accumulated masses, before the division,
\* equal (sum of the weights of m1) * (sum of the weights of m2); this is 1
\* when both sums are exactly 1.
C2_PreNormalizationIsProductOfSums ==
    DSCall =>
        LET s1 == SumFun(call.mf1.masses)
            s2 == SumFun(call.mf2.masses)
            total == call.acc.conflict + SumFun(call.acc.combined)
        IN  /\ call.acc.den = call.mf1.den * call.mf2.den
            /\ total = s1 * s2
            /\ (s1 = call.mf1.den /\ s2 = call.mf2.den) => total = call.acc.den

\* a combination with conflict whose inputs sum to 0.9992 and to 1
C2_Witness ==
    /\ DSCall
    /\ call.acc.conflict > 0
    /\ call.acc.combined # <<>>
    /\ SumFun(call.mf1.masses) = call.mf1.den - 1
    /\ SumFun(call.mf2.masses) = call.mf2.den

\* C3: commutativity.  Swapping the two arguments gives the same outcome
\* (returns or raises, with the same error), the same focal sets, the same
\* masses and the same conflict K, in the subset-form engine and in the
\* shorthand engine.
C3_Commutative ==
    /\ DSCall =>
         LET r == dempster_combination(call.mf2, call.mf1, call.show_matrix) IN
         /\ r.outcome = call.outcome
         /\ ~Returned => r.error = call.error
         /\ Returned => /\ SameMasses(r.value, call.value)
                        /\ SameNumber(r.value.conflict.n, r.value.conflict.d,
                                      call.value.conflict.n, call.value.conflict.d)
    /\ KBCall =>
         LET r == kb_dempster_combination(call.mf2, call.mf1) IN
         /\ r.outcome = call.outcome
         /\ SameMasses(r.value, call.value)
         /\ SameNumber(r.value.conflict.n, r.value.conflict.d,
                       call.value.conflict.n, call.value.conflict.d)

\* a shorthand combination of two different sources, one of them with the
\* ignorance key, with 0 < K
C3_Witness ==
    /\ KBCall
    /\ call.mf1.masses # call.mf2.masses
    /\ "d=?" \in DOMAIN call.mf1.masses
    /\ "d=?" \notin DOMAIN call.mf2.masses
    /\ call.value.conflict.n > 0

\* the grouping source1 (+) (source2 (+) source3), which main() does not compute
RightGrouping ==
    LET inner == dempster_combination(source2, source3, FALSE) IN
    IF inner.outcome = "return"
    THEN dempster_combination(source1, inner.value, FALSE)
    ELSE inner

ExactSum(mf) == SumFun(mf.masses) = mf.den

\* C4 as stated: for any three mass functions for which both groupings return
\* a result, (m1 (+) m2) (+) m3 and m1 (+) (m2 (+) m3) carry the same mass on
\* every focal set.
C4_Associative ==
    (pc = "final" /\ RightGrouping.outcome = "return")
        => SameMasses(final_combined, RightGrouping.value)

\* C4 amended: the same, for three mass functions whose weights each sum to
\* exactly 1.
C4_AssociativeForExactSums ==
    (/\ pc = "final"
     /\ RightGrouping.outcome = "return"
     /\ ExactSum(source1) /\ ExactSum(source2) /\ ExactSum(source3))
        => SameMasses(final_combined, RightGrouping.value)

\* a chain of three different sources with exact sums and conflict in both steps
C4_Witness ==
    /\ pc = "final"
    /\ RightGrouping.outcome = "return"
    /\ ExactSum(source1) /\ ExactSum(source2) /\ ExactSum(source3)
    /\ source1.masses # source2.masses /\ source2.masses # source3.masses
    /\ combined1.conflict.n > 0
    /\ final_combined.conflict.n > 0
    /\ Cardinality(DOMAIN final_combined.masses) >= 2

\* a source that gives mass 1 to the one singleton {h}
MassOneOn(mf, h) == DOMAIN mf.masses = {{h}} /\ mf.masses[{h}] = mf.den

\* C5: dempster_combination, with the matrix display on or off, on two sources
\* that each give mass 1 to one singleton, the two singletons being disjoint,
\* raises the ValueError of total conflict and no other error, and returns
\* no result.
C5_DisjointSingletonsRaiseValueError ==
    (/\ DSCall
     /\ \E h1 \in Frame, h2 \in Frame :
            h1 # h2 /\ MassOneOn(call.mf1, h1) /\ MassOneOn(call.mf2, h2))
        => (call.outcome = "raise" /\ call.error = "ValueError")

\* every focal set of mf1 is disjoint from every focal set of mf2
AllPairsDisjoint(mf1, mf2) ==
    \A A \in DOMAIN mf1.masses, B \in DOMAIN mf2.masses : A \cap B = {}

\* C6: for two mass functions accepted by create_mass_function whose focal
\* sets are pairwise disjoint, dempster_combination fails instead of returning
\* a combined mass function, and the failure is the ValueError of total
\* conflict (which error is raised with the matrix display on is C5).
C6_AllDisjointFails ==
    (DSCall /\ AllPairsDisjoint(call.mf1, call.mf2))
        => /\ call.outcome = "raise"
           /\ ~call.show_matrix => call.error = "ValueError"

\* C7: no combination call, in either engine, returns a result whose
\* conflict K is outside [0, 1).
C7_ReturnedConflictBelowOne ==
    ((DSCall \/ KBCall) /\ Returned)
        => (0 <= call.value.conflict.n /\ call.value.conflict.n < call.value.conflict.d)

CreateCall == call.fn = "create_mass_function"

\* C8: create_mass_function raises ValueError, reporting the computed sum
\* and building no mass function, for every mapping whose weights are
\* further than 0.001 from 1 in sum; it returns every other mapping with
\* its weights unchanged.
C8_SumValidation ==
    CreateCall =>
        LET total == SumFun(call.masses) IN
        IF Abs(total - Unit) * TolDen > Unit
        THEN /\ call.outcome = "raise"
             /\ call.error = "ValueError"
             /\ call.total = [n |-> total, d |-> Unit]
             /\ source1 = NoMF
        ELSE /\ Returned
             /\ call.value.masses = call.masses
             /\ call.value.den = Unit
             /\ source1 = call.value

\* the mapping {A: 0.5, B: 0.6} is rejected with the sum 1.1
C8_Witness ==
    /\ CreateCall
    /\ call.masses = ({1} :> Unit \div 2) @@ ({2} :> (3 * Unit) \div 5)
    /\ call.outcome = "raise"
    /\ call.total.n * 10 = 11 * call.total.d

\* C9: create_mass_function builds a mass function only if every key is a
\* non-empty subset of the frame and every weight is > 0.
C9_KeysAndWeightsValidated ==
    (CreateCall /\ Returned)
        => \A k \in DOMAIN call.masses :
               k # {} /\ k \subseteq Frame /\ call.masses[k] > 0

BeliefCall == call.fn = "calculate_belief"
PlausibilityCall == call.fn = "calculate_plausibility"

\* the hypothesis set H of the frame is passed as a list, as a set, or, for
\* a singleton, as its one identifier
PassesFrameSubset(hypothesis) ==
    hypothesis.kind \in {"list", "set", "str"} /\ hypothesis.value \subseteq Frame

IntervalCall == call.fn = "print_belief_plausibility"
KBQueryCall == call.fn = "calculate_belief_plausibility"

\* C11: for every mass function that create_mass_function accepts or that
\* dempster_combination returns, and every hypothesis, the belief is at most
\* the plausibility; the same for the shorthand calculator.
C11_BeliefAtMostPlausibility ==
    /\ IntervalCall => call.bel.n <= call.pl.n
    /\ KBQueryCall => call.value.belief.n <= call.value.plausibility.n

\* C12: for every mass function accepted by create_mass_function or returned
\* by dempster_combination, belief and plausibility of the full frame are 1
\* and belief and plausibility of the empty set are 0.
C12_FullFrameAndEmptySet ==
    (IntervalCall /\ call.hypothesis.kind \in {"list", "set"})
        => /\ call.hypothesis.value = Frame
                => (call.bel.n = call.bel.d /\ call.pl.n = call.pl.d)
           /\ call.hypothesis.value = {}
                => (call.bel.n = 0 /\ call.pl.n = 0)

\* 0.14, 0.86, 0.60 and 0.40, the weights of demonstrate_combination
DemoMass1 == ("d=V" :> (7 * Unit) \div 50) @@ ("d=?" :> (43 * Unit) \div 50)
DemoMass2 == ("d=V" :> (3 * Unit) \div 5) @@ ("d=?" :> (2 * Unit) \div 5)

\* C13: combining m1 = {d: 0.14, Omega: 0.86} with m2 = {d: 0.60, Omega: 0.40}
\* gives K = 0, mass 0.656 on d and 0.344 on Omega, and then belief(d) = 0.656,
\* plausibility(d) = 1.0 and uncertainty(d) = 0.344.
C13_DemonstrationValues ==
    (/\ "masses" \in DOMAIN source1 /\ source1.masses = DemoMass1
     /\ "masses" \in DOMAIN source2 /\ source2.masses = DemoMass2)
        => /\ KBCall
                => /\ Returned
                   /\ call.value.conflict.n = 0
                   /\ DOMAIN call.value.masses = {"d=V", "d=?"}
                   /\ SameNumber(call.value.masses["d=V"], call.value.den, 656, 1000)
                   /\ SameNumber(call.value.masses["d=?"], call.value.den, 344, 1000)
           /\ (KBQueryCall /\ call.hypothesis = "d=V" /\ call.mass_function = combined1)
                => /\ SameNumber(call.value.belief.n, call.value.belief.d, 656, 1000)
                   /\ SameNumber(call.value.plausibility.n, call.value.plausibility.d, 1, 1)
                   /\ SameNumber(call.value.plausibility.n - call.value.belief.n,
                                 call.value.belief.d, 344, 1000)

\* the demonstration has run to its final evaluation of 'd=V'
C13_Witness ==
    /\ pc = "done"
    /\ KBQueryCall
    /\ call.hypothesis = "d=V"
    /\ call.mass_function = combined1
    /\ "masses" \in DOMAIN source2
    /\ source1.masses = DemoMass1
    /\ source2.masses = DemoMass2

\* C14: a belief or plausibility query whose hypothesis set holds an
\* identifier outside the frame fails with an error and returns no number.
C14_OutsideFrameRaises ==
    ((BeliefCall \/ PlausibilityCall) /\ ~(call.hypothesis.value \subseteq Frame))
        => call.outcome = "raise"

\* a mass function as the contract of create_mass_function describes it
WellFormed(mf) ==
    /\ \A k \in DOMAIN mf.masses : k # {} /\ k \subseteq Frame /\ mf.masses[k] > 0
    /\ Abs(SumFun(mf.masses) - mf.den) * TolDen <= mf.den

\* C15: dempster_combination fails, and hands the caller no result, whenever
\* one of its inputs is a malformed mass function, also when that input is
\* the result of a previous combination.
C15_MalformedInputRaises ==
    (DSCall /\ ~(WellFormed(call.mf1) /\ WellFormed(call.mf2)))
        => call.outcome = "raise"

\* C16 as stated: the masses of every result returned by dempster_combination
\* for two inputs accepted by create_mass_function sum to 1 within 0.001.
C16_ResultSumsToOneWithinTolerance ==
    (DSCall /\ Returned)
        => Abs(SumFun(call.value.masses) - call.value.den) * TolDen <= call.value.den

\* C16 amended: the masses of every result returned by dempster_combination
\* for two accepted inputs whose weights each sum to exactly 1 sum to 1.
C16_ResultSumsToOneForExactSums ==
    (DSCall /\ Returned /\ ExactSum(call.mf1) /\ ExactSum(call.mf2))
        => SumFun(call.value.masses) = call.value.den

\* a result with conflict and two focal sets, from inputs of sum exactly 1
C16_Witness ==
    /\ DSCall /\ Returned
    /\ ExactSum(call.mf1) /\ ExactSum(call.mf2)
    /\ call.value.conflict.n > 0
    /\ Cardinality(DOMAIN call.value.masses) >= 2
    /\ call.value.den < call.acc.den

\* C17: no result of dempster_combination has the empty set as a focal set:
\* the products of the disjoint pairs make up the conflict and go to no focal
\* set, and every focal set of the result is the non-empty intersection of
\* one focal set of each input, a subset of the frame, with a positive mass.
C17_NoEmptyFocalSet ==
    DSCall =>
        LET m1 == call.mf1.masses
            m2 == call.mf2.masses
        IN  /\ call.acc.conflict = PairSum(m1, m2, {})
            /\ \A C \in DOMAIN call.acc.combined :
                   /\ C # {}
                   /\ C \subseteq Frame
                   /\ FocalPairs(m1, m2, C) # {}
                   /\ call.acc.combined[C] > 0
            /\ Returned =>
                   /\ DOMAIN call.value.masses = DOMAIN call.acc.combined
                   /\ \A C \in DOMAIN call.value.masses :
                          call.value.masses[C] > 0 /\ call.value.den > 0

\* a returned result of inputs that have disjoint focal pairs
C17_Witness ==
    /\ DSCall /\ Returned
    /\ FocalPairs(call.mf1.masses, call.mf2.masses, {}) # {}
    /\ call.value.masses # <<>>
    /\ pc = "combined"

\* the lowering of the shorthand keys: 'x=V' to {True}, 'x=F' to {False} and
\* 'x=?' to {True, False}
Lower(key) ==
    CASE key = "d=V" -> {TRUE}
      [] key = "d=F" -> {FALSE}
      [] key = "d=?" -> {TRUE, FALSE}

\* the lowered mass function of a shorthand mass function
LowerMF(mf) ==
    [name |-> "lowered",
     masses |-> [S \in {Lower(k) : k \in DOMAIN mf.masses}
                    |-> mf.masses[CHOOSE k \in DOMAIN mf.masses : Lower(k) = S]],
     den |-> mf.den]

\* C18: whenever K < 1, the shorthand dempster_combination returns the
\* conflict and, after lowering, the masses that the subset-form
\* dempster_combination returns on the lowered inputs.
C18_ShorthandRefinesSubsetForm ==
    (KBCall /\ call.value.conflict.n < call.value.conflict.d)
        => LET r == dempster_combination(LowerMF(call.mf1), LowerMF(call.mf2), FALSE)
           IN  /\ r.outcome = "return"
               /\ SameNumber(call.value.conflict.n, call.value.conflict.d,
                             r.value.conflict.n, r.value.conflict.d)
               /\ SameMasses(LowerMF(call.value), r.value)

\* a shorthand combination with conflict in which an ignorance key meets a
\* different key
C18_Witness ==
    /\ KBCall
    /\ call.value.conflict.n > 0
    /\ call.value.conflict.n < call.value.conflict.d
    /\ "d=?" \in DOMAIN call.mf1.masses
    /\ "d=F" \in DOMAIN call.mf2.masses
    /\ Cardinality(DOMAIN call.value.masses) >= 2

\* C19: for every shorthand mass function and every hypothesis among 'x=V',
\* 'x=F' and 'x=?', calculate_belief_plausibility returns the belief and the
\* plausibility that the subset-form calculator returns for the lowered
\* hypothesis on the lowered mass function.
C19_ShorthandQueryRefinesSubsetForm ==
    (KBQueryCall /\ call.hypothesis \in KBKeys)
        => LET m == LowerMF(call.mass_function)
               H == [kind |-> "set", value |-> Lower(call.hypothesis)]
           IN  /\ call.value.belief = calculate_belief(m, H)
               /\ call.value.plausibility = calculate_plausibility(m, H)

StrataCall == call.fn = "create_mass_from_strata"

\* C20: for every interest value v in [0, 1], create_mass_from_strata(x, v)
\* returns {x=V: v, x=?: 1 - v} ({x=?: 1} for v = 0), every weight it lists
\* is > 0 and the weights sum to 1.
C20_StrataMassFunctionValid ==
    (StrataCall /\ 0 <= call.interest_value /\ call.interest_value <= Unit)
        => LET v == call.interest_value
               m == call.value.masses
           IN  /\ m = IF v = 0 THEN ("d=?" :> Unit)
                      ELSE ("d=V" :> v) @@ ("d=?" :> Unit - v)
               /\ call.value.den = Unit
               /\ \A k \in DOMAIN m : m[k] > 0
               /\ SumFun(m) = Unit

(***************************************************************************)
(* The dichotomy search of ThLogicDicho.py.                                *)
(***************************************************************************)
InterestCall == script = "ThLogicDicho" /\ call.fn = "calculate_interest_variable"

\* strata 0..r together with the negation of the literal are inconsistent
Inconsistent(r, phi_literal) == ~Solve(Projection(r, phi_literal))

\* inconsistency, once reached, stays when more strata are added
MonotoneInconsistency(phi_literal) ==
    \A r1, r2 \in 0 .. Len(strata) - 1 :
        (r1 <= r2 /\ Inconsistent(r1, phi_literal)) => Inconsistent(r2, phi_literal)

\* the weight of the first stratum index, scanning upwards from 0, at which
\* the projection is inconsistent, and 0 when there is none
LinearScan(phi_literal) ==
    LET found == {r \in 0 .. Len(strata) - 1 : Inconsistent(r, phi_literal)} IN
    IF found = {} THEN 0
    ELSE strata[(CHOOSE r \in found : \A q \in found : r <= q) + 1].weight

\* C24: for every literal whose inconsistency is monotone in the stratum
\* index, calculate_interest_variable returns the weight of the smallest index
\* r for which strata 0..r with the negated literal are unsatisfiable, and 0
\* when there is no such index: the dichotomy agrees with the linear scan.
C24_DichotomyAgreesWithLinearScan ==
    (InterestCall /\ pc = "returned" /\ MonotoneInconsistency(call.phi_literal))
        => call.value = LinearScan(call.phi_literal)

C24_Witness ==
    /\ InterestCall /\ pc = "returned"
    /\ MonotoneInconsistency(call.phi_literal)
    /\ call.result_idx > 0
    /\ call.value = strata[call.result_idx + 1].weight
    /\ call.value = LinearScan(call.phi_literal)

\* an iteration strictly shrinks [l, u]: l becomes r + 1 or u becomes r - 1,
\* and the index r it probed is one of 0..n-1
IterationShrinks ==
    (InterestCall /\ pc = "while" /\ pc' = "while") =>
        /\ call'.r = (call.l + call.u) \div 2
        /\ call'.r \in 0 .. call.n - 1
        /\ \/ call'.l = call'.r + 1 /\ call'.u = call.u
           \/ call'.u = call'.r - 1 /\ call'.l = call.l
        /\ call'.u - call'.l < call.u - call.l

\* the value returned is 0 or the weight of one of the strata
ReturnsZeroOrWeight ==
    (InterestCall /\ pc = "returned") =>
        \/ call.value = 0
        \/ \E i \in 1 .. Len(strata) : call.value = strata[i].weight

\* C25: whatever the literal and whatever the solver answers, the dichotomy
\* loop terminates: every iteration strictly shrinks [l, u] (l becomes r + 1
\* or u becomes r - 1), every probed r is within 0..n-1, and the call returns
\* 0 or the weight of one of the strata.
C25_DichotomyTerminates ==
    /\ [][IterationShrinks]_vars
    /\ []ReturnsZeroOrWeight
    /\ <>(InterestCall /\ pc = "returned")

C25_Witness ==
    /\ InterestCall /\ pc = "returned"
    /\ call.r = call.n - 1
    /\ call.value = strata[call.n].weight

(***************************************************************************)
(* Effects and labels of dempster_combination.                             *)
(***************************************************************************)
\* C22: a call to dempster_combination with its default arguments (show_matrix
\* is True) performs no I/O: it prints nothing and writes no file.
C22_DefaultCallPerformsNoIO ==
    (DSCall /\ call.show_matrix) => (~call.printed /\ ~call.exported)

\* C23: every result returned by dempster_combination carries the label
\* name1 + ' (+) ' + name2, in argument order, and a conflict field equal to
\* the K accumulated in that call: the sum of m1(A) * m2(B) over the focal
\* pairs with an empty intersection.
C23_LabelAndConflictField ==
    (DSCall /\ Returned) =>
        /\ call.value.name = call.mf1.name \o " (+) " \o call.mf2.name
        /\ SameNumber(call.value.conflict.n, call.value.conflict.d,
                      PairSum(call.mf1.masses, call.mf2.masses, {}),
                      call.mf1.den * call.mf2.den)

C23_Witness ==
    /\ DSCall /\ Returned
    /\ call.mf1.name = "S1" /\ call.mf2.name = "S2"
    /\ call.value.name = "S1 (+) S2"
    /\ call.value.conflict.n = PairSum(call.mf1.masses, call.mf2.masses, {})
    /\ call.value.conflict.n > 0

(***************************************************************************)
(* The vacuous mass function.                                              *)
(***************************************************************************)
\* mass 1 on the full frame
Vacuous(mf) == DOMAIN mf.masses = {Frame} /\ mf.masses[Frame] = mf.den

\* mass 1 on the ignorance key 'd=?'
KBVacuous(mf) == DOMAIN mf.masses = {"d=?"} /\ mf.masses["d=?"] = mf.den

\* C26: the vacuous mass function is neutral for both engines: combining a
\* valid mass function m with it, in either order, returns K = 0 and exactly
\* the focal sets and the masses of m.
C26_VacuousIsNeutral ==
    /\ (DSCall /\ Vacuous(call.mf2)) =>
          (Returned /\ call.value.conflict.n = 0 /\ SameMasses(call.value, call.mf1))
    /\ (DSCall /\ Vacuous(call.mf1)) =>
          (Returned /\ call.value.conflict.n = 0 /\ SameMasses(call.value, call.mf2))
    /\ (KBCall /\ KBVacuous(call.mf2)) =>
          (Returned /\ call.value.conflict.n = 0 /\ SameMasses(call.value, call.mf1))
    /\ (KBCall /\ KBVacuous(call.mf1)) =>
          (Returned /\ call.value.conflict.n = 0 /\ SameMasses(call.value, call.mf2))

\* the vacuous mass function comes first and the other one has two focal sets
C26_Witness ==
    /\ \/ KBCall /\ KBVacuous(call.mf1)
       \/ DSCall /\ Vacuous(call.mf1)
    /\ Returned
    /\ Cardinality(DOMAIN call.mf2.masses) = 2
    /\ SameMasses(call.value, call.mf2)

(***************************************************************************)
(* The forms a hypothesis is passed in.                                    *)
(***************************************************************************)
\* C30: the value of calculate_belief and of calculate_plausibility depends
\* only on the set of identifiers, not on how it is passed: a list, a set and
\* a frozenset of the same identifiers give the same value, and one
\* identifier h gives the value of {h}.
C30_ValueDependsOnIdentifiersOnly ==
    /\ BeliefCall =>
          call.value = calculate_belief(call.mass_function,
                                        [kind |-> "set", value |-> call.hypothesis.value])
    /\ PlausibilityCall =>
          call.value = calculate_plausibility(call.mass_function,
                                              [kind |-> "set", value |-> call.hypothesis.value])

(***************************************************************************)
(* Duality of belief and plausibility.                                     *)
(***************************************************************************)
\* calculate_belief of the complement of the hypothesis within the frame
BeliefOfComplement ==
    calculate_belief(call.mass_function,
                     [kind |-> "set", value |-> Frame \ call.hypothesis.value])

\* C27: for every mass function m accepted by create_mass_function or
\* returned by dempster_combination and every hypothesis H within the frame,
\* calculate_plausibility(m, H) = 1 - calculate_belief(m, frame \ H).
C27_Duality ==
    (IntervalCall /\ call.hypothesis.kind \in {"list", "set"})
        => SameNumber(call.pl.n, call.pl.d,
                      BeliefOfComplement.d - BeliefOfComplement.n, BeliefOfComplement.d)

(***************************************************************************)
(* Chains of three sources: failure and conflict under the two groupings.  *)
(***************************************************************************)
\* the outcome of a (+) (b (+) c)
RightGroupingOf(a, b, c) ==
    LET inner == dempster_combination(b, c, FALSE) IN
    IF inner.outcome = "return"
    THEN dempster_combination(a, inner.value, FALSE)
    ELSE inner

TotalConflictRaised == DSCall /\ call.outcome = "raise" /\ call.error = "ValueError"

\* C29: failure does not depend on the grouping: for accepted a, b and c the
\* left grouping (a (+) b) (+) c raises the total-conflict error, at its first
\* or at its second step, exactly when the right grouping a (+) (b (+) c)
\* raises it.
C29_FailureIsGroupingIndependent ==
    /\ pc = "final" => RightGrouping.outcome = "return"
    /\ (pc = "crashed" /\ TotalConflictRaised /\ source3 # NoMF)
          => RightGrouping.outcome = "raise"
    /\ (pc = "crashed" /\ TotalConflictRaised /\ source3 = NoMF)
          => \A masses \in Sources :
                RightGroupingOf(source1, source2,
                                create_mass_function("S3", masses, Unit).value).outcome = "raise"

\* 1 - K in lowest terms, K being a conflict field [n, d]
OneMinus(K) ==
    LET g == GCD(Abs(K.d - K.n), K.d) IN [n |-> (K.d - K.n) \div g, d |-> K.d \div g]

\* the product of two numbers in lowest terms, in lowest terms
Times(x, y) ==
    LET g1 == GCD(Abs(x.n), y.d)
        g2 == GCD(Abs(y.n), x.d)
    IN  [n |-> (x.n \div g1) * (y.n \div g2), d |-> (x.d \div g2) * (y.d \div g1)]

\* the conflicts of the right grouping: K(b, c) and K(a, b (+) c)
RightConflicts ==
    LET inner == dempster_combination(source2, source3, FALSE)
        outer == dempster_combination(source1, inner.value, FALSE)
    IN  [inner |-> inner.value.conflict, outer |-> outer.value.conflict]

\* the conflict field of a chain's result is the K of its last step
LastStepConflict ==
    SameNumber(final_combined.conflict.n, final_combined.conflict.d,
               PairSum(combined1.masses, source3.masses, {}),
               combined1.den * source3.den)

\* (1 - K(a, b)) (1 - K(a (+) b, c)) = (1 - K(b, c)) (1 - K(a, b (+) c))
SameSurvivingMass ==
    Times(OneMinus(combined1.conflict), OneMinus(final_combined.conflict))
        = Times(OneMinus(RightConflicts.inner), OneMinus(RightConflicts.outer))

\* C28 as stated: in a chain of three sources the conflict field of the final
\* result records only the conflict of the last step, and whenever both
\* groupings succeed (1 - K(a, b)) (1 - K(a (+) b, c)) equals
\* (1 - K(b, c)) (1 - K(a, b (+) c)).
C28_ConflictProductIsGroupingIndependent ==
    (pc = "final" /\ RightGrouping.outcome = "return")
        => (LastStepConflict /\ SameSurvivingMass)

\* C28 amended: the same, for three sources whose weights each sum to
\* exactly 1.
C28_ConflictProductForExactSums ==
    (/\ pc = "final"
     /\ ExactSum(source1) /\ ExactSum(source2) /\ ExactSum(source3)
     /\ RightGrouping.outcome = "return")
        => (LastStepConflict /\ SameSurvivingMass)

\* both groupings succeed with exact sums, and the four conflicts are all
\* different from 0 and from each other step's
C28_Witness ==
    /\ pc = "final"
    /\ ExactSum(source1) /\ ExactSum(source2) /\ ExactSum(source3)
    /\ RightGrouping.outcome = "return"
    /\ combined1.conflict.n > 0 /\ final_combined.conflict.n > 0
    /\ RightConflicts.inner.n > 0 /\ RightConflicts.outer.n > 0
    /\ OneMinus(combined1.conflict) # OneMinus(RightConflicts.inner)
    /\ SameSurvivingMass

(***************************************************************************)
(* Inputs are not mutated and results are fresh.                           *)
(***************************************************************************)
ObjectCall == "heap_before" \in DOMAIN call

\* the dicts a call was given: its mass function dicts and their masses dicts
InputObjects ==
    {call.mf1, call.mf2}
        \cup {call.heap_before[call.mf1].masses, call.heap_before[call.mf2].masses}

\* C21: dempster_combination, calculate_belief and calculate_plausibility
\* never mutate their input mass functions: after a call, whether it returned
\* or raised, the name, the focal sets and the masses of every input are what
\* they were before, and the mass map of a returned result is a new object,
\* distinct from the mass maps of both inputs.
C21_InputsUnchangedResultFresh ==
    ObjectCall =>
        /\ \A o \in InputObjects : call.heap_after[o] = call.heap_before[o]
        /\ (call.fn = "dempster_combination" /\ Returned) =>
              /\ call.heap_after[call.value].masses \notin InputObjects
              /\ call.heap_after[call.value].masses \notin 1 .. Len(call.heap_before)

\* a combination of a mass function with itself that returned, with conflict,
\* a result whose focal sets are those of the input
C21_Witness ==
    /\ ObjectCall /\ call.fn = "dempster_combination" /\ Returned
    /\ call.mf1 = call.mf2
    /\ combined1.conflict.n > 0
    /\ DOMAIN combined1.masses = DOMAIN call.heap_before[call.heap_before[call.mf1].masses]
    /\ combined1.masses # call.heap_before[call.heap_before[call.mf1].masses]
    /\ combined1 = dempster_combination(Deref(call.heap_before, call.mf1),
                                        Deref(call.heap_before, call.mf2), FALSE).value
====
